---- MODULE Spec2Model ----
(***************************************************************************)
(* Restaurant recommendation backend (FastAPI + MongoDB).                  *)
(*                                                                         *)
(*   Backend/main.py         POST /api/restaurants/recommend  (pipeline)   *)
(*                           POST /api/city/search  (get_famous_foods)     *)
(*   Backend/import_data.py  import_dataset / clean_cuisines               *)
(*                                                                         *)
(* Conventions of the model                                                *)
(*   - a Python str that the code strips, lowers, splits, joins or         *)
(*     searches is a sequence of one-character strings;                    *)
(*   - a Python list of documents is a sequence of positions in the        *)
(*     collection (the list holds references to the dicts find() made);    *)
(*   - rating is kept in tenths, distances in tenths of a km, coordinates  *)
(*     in hundredths of a degree, ai_score in 1/10000.                     *)
(***************************************************************************)
EXTENDS Integers, Sequences, FiniteSets, TLC

VARIABLES
    restaurants_col,   \* the MongoDB collection: a sequence of documents
    request,           \* the request body being served
    pc,                \* position of the handler / script
    all_in_city,       \* recommend_restaurants: STEP 1 result
    area_filtered,     \* STEP 2 result
    budget_filtered,   \* STEP 3 result
    taste_filtered,    \* STEP 4 result
    final_list,        \* STEP 5 result, sorted in place by STEP 6
    distance_km,       \* r["distance_km"] of the documents that have it
    ai_score,          \* r["ai_score"] of the documents that have it
    top_results,       \* STEP 6 result
    lookup,            \* what the Places service did for this request
    result,            \* the response body
    status,            \* HTTP status of the response (0: none yet)
    grouped,           \* get_famous_foods: the cuisine groups, sorted by popularity
    famous_foods,      \* get_famous_foods: its return value
    df,                \* import_dataset: the rows of the source file
    cand               \* calculate_ai_score: the candidate document scored

vars == <<restaurants_col, request, pc, all_in_city, area_filtered,
          budget_filtered, taste_filtered, final_list, distance_km, ai_score,
          top_results, lookup, result, status, grouped, famous_foods, df, cand>>

----------------------------------------------------------------------------
(* Bounds of the model *)

\* longest collection enumerated document by document
MaxRecords == 2
\* most cuisine groups that follow the filler groups of a city
MaxCuisines == 3
\* most rows of a source file
MaxRows == 2
\* largest distance scored on its own, in km
MaxDistKm == 40

----------------------------------------------------------------------------
(* Python str operations *)

UpperToLower ==
    [A |-> "a", B |-> "b", C |-> "c", D |-> "d", E |-> "e", F |-> "f", G |-> "g",
     H |-> "h", I |-> "i", J |-> "j", K |-> "k", L |-> "l", M |-> "m", N |-> "n",
     O |-> "o", P |-> "p", Q |-> "q", R |-> "r", S |-> "s", T |-> "t", U |-> "u",
     V |-> "v", W |-> "w", X |-> "x", Y |-> "y", Z |-> "z"]

\* str.lower()
Lower(s) ==
    [i \in 1..Len(s) |-> IF s[i] \in DOMAIN UpperToLower THEN UpperToLower[s[i]] ELSE s[i]]

\* str.strip(): leading and trailing whitespace removed
Strip(s) ==
    LET inked == {i \in 1..Len(s) : s[i] # " "}
        Min(S) == CHOOSE x \in S : \A y \in S : x <= y
        Max(S) == CHOOSE x \in S : \A y \in S : x >= y
    IN  IF inked = {} THEN <<>> ELSE SubSeq(s, Min(inked), Max(inked))

\* needle in hay
Contains(needle, hay) ==
    \E i \in 0..(Len(hay) - Len(needle)) : SubSeq(hay, i + 1, i + Len(needle)) = needle

\* str.split(sep) for a one-character sep
RECURSIVE Split(_, _)
Split(s, sep) ==
    LET cuts == {i \in 1..Len(s) : s[i] = sep}
        first == CHOOSE i \in cuts : \A j \in cuts : i <= j
    IN  IF cuts = {} THEN <<s>>
        ELSE <<SubSeq(s, 1, first - 1)>> \o Split(SubSeq(s, first + 1, Len(s)), sep)

\* sep.join(parts)
RECURSIVE Join(_, _)
Join(sep, parts) ==
    IF parts = <<>> THEN <<>>
    ELSE IF Len(parts) = 1 THEN parts[1]
    ELSE parts[1] \o sep \o Join(sep, Tail(parts))

Range(s) == {s[i] : i \in 1..Len(s)}

SeqsUpTo(S, n) == UNION {[1..k -> S] : k \in 1..n}

Take(s, n) == SubSeq(s, 1, IF Len(s) < n THEN Len(s) ELSE n)

Abs(x) == IF x < 0 THEN -x ELSE x

----------------------------------------------------------------------------
(* Texts *)

tHyderabad    == <<"H","y","d","e","r","a","b","a","d">>
tHyderabadLc  == <<"h","y","d","e","r","a","b","a","d">>
tPune         == <<"P","u","n","e">>
tBanjaraHills == <<"B","a","n","j","a","r","a"," ","H","i","l","l","s">>
tBanjaraPad   == <<" ","B","a","n","j","a","r","a"," ","H","i","l","l","s"," ">>
tBanjaraLc    == <<"b","a","n","j","a","r","a"," ","h","i","l","l","s">>
tJubileeHills == <<"J","u","b","i","l","e","e"," ","H","i","l","l","s">>
tGachibowli   == <<"G","a","c","h","i","b","o","w","l","i">>
tHills        == <<"H","i","l","l","s">>
tKondapur     == <<"K","o","n","d","a","p","u","r">>
tBlank        == <<" "," ">>
tSpicy        == <<"s","p","i","c","y">>
tMild         == <<"m","i","l","d">>
tBiryani      == <<"B","i","r","y","a","n","i">>
tSouthIndian  == <<"S","o","u","t","h"," ","I","n","d","i","a","n">>
tHaleem       == <<"H","a","l","e","e","m">>
tAndhra       == <<"A","n","d","h","r","a">>
tCafe         == <<"C","a","f","e">>
tNorthIndian  == <<"N","o","r","t","h"," ","I","n","d","i","a","n">>
tChinese      == <<"C","h","i","n","e","s","e">>
tDesserts     == <<"D","e","s","s","e","r","t","s">>
tMughlai      == <<"M","u","g","h","l","a","i">>

----------------------------------------------------------------------------
(* Program constants *)

NoBudgetLimit    == 99999
MinBudgetMatches == 3
BudgetSlack      == 500
MinNearby        == 3
TopN             == 20
CuisineLimit     == 20
MaxFamous        == 7

\* 17.3850, 78.4867: the Hyderabad centroid, in hundredths of a degree
DefaultLatitude  == 1738
DefaultLongitude == 7848
\* the 5.0 km calculate_distance falls back to, in tenths of a km
FallbackDistance == 50

spicy_kw ==
    << <<"b","i","r","y","a","n","i">>, <<"a","n","d","h","r","a">>,
       <<"c","h","e","t","t","i","n","a","d">>, <<"k","e","b","a","b">>,
       <<"m","u","g","h","l","a","i">>, <<"s","c","h","e","z","w","a","n">> >>

mild_kw ==
    << <<"c","a","f","e">>, <<"c","o","n","t","i","n","e","n","t","a","l">>,
       <<"s","o","u","t","h"," ","i","n","d","i","a","n">>,
       <<"i","t","a","l","i","a","n">>, <<"d","e","s","s","e","r","t">>,
       <<"b","a","k","e","r","y">> >>

----------------------------------------------------------------------------
(* The documents and requests the model draws from *)

Doc(name, city, locality, cuisines, cost, rating, lat, spicy, open) ==
    [name |-> name, city |-> city, locality |-> locality, cuisines |-> cuisines,
     cost_for_two |-> cost, rating |-> rating, latitude |-> lat,
     longitude |-> DefaultLongitude, spicy_level |-> spicy, open_now |-> open]

Catalog ==
    { Doc("Paradise", tHyderabad, tBanjaraHills, <<tBiryani>>, 250, 45, 1738, "High", "Yes"),
      Doc("Roastery", tHyderabad, tJubileeHills, <<tCafe, tDesserts>>, 500, 45, 1743, "Medium", "No"),
      Doc("Punjab Grill", tHyderabad, tGachibowli, <<tNorthIndian>>, 900, 30, 1752, "Low", "Yes"),
      Doc("Rayalaseema", tHyderabad, tBanjaraPad, <<tAndhra, tMughlai>>, 1500, 40, 1800, "Medium", "No"),
      Doc("Wok", tHyderabadLc, tBanjaraHills, <<tChinese>>, 2500, 0, 0, "Low", "Yes") }

RECURSIVE Replicate(_, _)
Replicate(s, n) == IF n = 0 THEN <<>> ELSE s \o Replicate(s, n - 1)

\* every short collection, and collections of TopN + 2 documents: every pair of
\* catalog documents, interleaved
Collections ==
    SeqsUpTo(Catalog, MaxRecords)
        \cup {Replicate(b, TopN \div 2 + 1) : b \in [1..2 -> Catalog]}

Budgets == { <<0, NoBudgetLimit>>, <<1000, NoBudgetLimit>>, <<200, 600>>, <<0, 100>> }

Positions == { <<0, 0>>, <<DefaultLatitude, DefaultLongitude>>, <<1800, DefaultLongitude>> }

Requests ==
    { [city |-> c, area |-> a, latitude |-> g[1], longitude |-> g[2],
       taste_preference |-> t, budget_min |-> b[1], budget_max |-> b[2]] :
        c \in {tHyderabad, tHyderabadLc, tPune},
        a \in {<<>>, tBlank, tBanjaraLc, tHills, tKondapur},
        g \in Positions,
        t \in {tSpicy, tMild},
        b \in Budgets }

NoRequest == [city |-> <<>>, area |-> <<>>, latitude |-> 0, longitude |-> 0,
              taste_preference |-> tSpicy, budget_min |-> 0, budget_max |-> NoBudgetLimit]

NoDoc == [rating |-> 0, cost_for_two |-> 0]

----------------------------------------------------------------------------
(* recommend_restaurants: the stages *)

\* list(restaurants_col.find({"city": city})), then the case-insensitive retry
FindByCity(col, city) ==
    LET ids   == [i \in 1..Len(col) |-> i]
        exact == SelectSeq(ids, LAMBDA i : col[i].city = city)
        regex == SelectSeq(ids, LAMBDA i : Lower(col[i].city) = Lower(city))
    IN  IF exact # <<>> THEN exact ELSE regex

\* AreaFilter without the fallback to the full city set
AreaFilterNoFallback(col, W, area) ==
    IF area # <<>> /\ Strip(area) # <<>>
    THEN LET area_text == Strip(area)
             exact   == SelectSeq(W, LAMBDA i :
                            Lower(Strip(col[i].locality)) = Lower(area_text))
             partial == SelectSeq(W, LAMBDA i :
                            Contains(Lower(area_text), Lower(col[i].locality)))
         IN  IF exact # <<>> THEN exact ELSE partial
    ELSE W

\* STEP 2
AreaFilter(col, W, area) ==
    IF area # <<>> /\ Strip(area) # <<>>
    THEN LET area_text == Strip(area)
             exact   == SelectSeq(W, LAMBDA i :
                            Lower(Strip(col[i].locality)) = Lower(area_text))
             partial == SelectSeq(W, LAMBDA i :
                            Contains(Lower(area_text), Lower(col[i].locality)))
         IN  IF exact # <<>> THEN exact
             ELSE IF partial # <<>> THEN partial
             ELSE W
    ELSE W

\* BudgetFilter taking 99999 for a real upper bound (> for >=)
BudgetFilterSentinelAsBound(col, W, budget_min, budget_max) ==
    IF budget_max > NoBudgetLimit THEN W
    ELSE LET in_range == SelectSeq(W, LAMBDA i :
                            /\ budget_min <= col[i].cost_for_two
                            /\ col[i].cost_for_two <= budget_max)
             relaxed  == SelectSeq(W, LAMBDA i :
                            col[i].cost_for_two <= budget_max + BudgetSlack)
             kept     == IF Len(in_range) < MinBudgetMatches THEN relaxed ELSE in_range
         IN  IF kept = <<>> THEN W ELSE kept

\* BudgetFilter relaxing only when nothing is in range
BudgetFilterRelaxWhenEmpty(col, W, budget_min, budget_max) ==
    IF budget_max >= NoBudgetLimit THEN W
    ELSE LET in_range == SelectSeq(W, LAMBDA i :
                            /\ budget_min <= col[i].cost_for_two
                            /\ col[i].cost_for_two <= budget_max)
             relaxed  == SelectSeq(W, LAMBDA i :
                            col[i].cost_for_two <= budget_max + BudgetSlack)
             kept     == IF in_range = <<>> THEN relaxed ELSE in_range
         IN  IF kept = <<>> THEN W ELSE kept

\* STEP 3
BudgetFilter(col, W, budget_min, budget_max) ==
    IF budget_max >= NoBudgetLimit THEN W
    ELSE LET in_range == SelectSeq(W, LAMBDA i :
                            /\ budget_min <= col[i].cost_for_two
                            /\ col[i].cost_for_two <= budget_max)
             relaxed  == SelectSeq(W, LAMBDA i :
                            col[i].cost_for_two <= budget_max + BudgetSlack)
             kept     == IF Len(in_range) < MinBudgetMatches THEN relaxed ELSE in_range
         IN  IF kept = <<>> THEN W ELSE kept

\* filter_by_taste without the keyword retry
filter_by_taste_no_keywords(col, restaurants, preference) ==
    LET pref     == Lower(preference)
        by_level == IF pref = tSpicy
                    THEN SelectSeq(restaurants, LAMBDA i : col[i].spicy_level = "High")
                    ELSE SelectSeq(restaurants, LAMBDA i :
                             col[i].spicy_level \in {"Low", "Medium"})
    IN  IF by_level # <<>> THEN by_level ELSE restaurants

\* STEP 4
filter_by_taste(col, restaurants, preference) ==
    LET pref     == Lower(preference)
        by_level == IF pref = tSpicy
                    THEN SelectSeq(restaurants, LAMBDA i : col[i].spicy_level = "High")
                    ELSE SelectSeq(restaurants, LAMBDA i :
                             col[i].spicy_level \in {"Low", "Medium"})
        kws      == IF pref = tSpicy THEN spicy_kw ELSE mild_kw
        by_kw    == SelectSeq(restaurants, LAMBDA i :
                        \E k \in 1..Len(kws) :
                            Contains(kws[k], Lower(Join(<<" ">>, col[i].cuisines))))
        filtered == IF by_level # <<>> THEN by_level ELSE by_kw
    IN  IF filtered # <<>> THEN filtered ELSE restaurants

\* geopy's geodesic(...).kilometers, in tenths of a km: about 1.1 km for each
\* hundredth of a degree near Hyderabad; a latitude outside [-90, 90] raises
geodesic(lat1, lon1, lat2, lon2) == 11 * (Abs(lat1 - lat2) + Abs(lon1 - lon2))

calculate_distance(lat1, lon1, lat2, lon2) ==
    IF Abs(lat1) > 9000 \/ Abs(lat2) > 9000 THEN FallbackDistance
    ELSE IF lat2 # 0 /\ lon2 # 0 THEN geodesic(lat1, lon1, lat2, lon2)
    ELSE FallbackDistance

has_gps(req) == req.latitude # 0 /\ req.longitude # 0

\* the distance STEP 5 stores in each document of taste_filtered
Distances(col, W, req) ==
    [i \in Range(W) |->
        IF has_gps(req)
        THEN calculate_distance(req.latitude, req.longitude,
                 IF col[i].latitude # 0 THEN col[i].latitude ELSE DefaultLatitude,
                 IF col[i].longitude # 0 THEN col[i].longitude ELSE DefaultLongitude)
        ELSE 0]

\* DistanceFilter without the fallback to the unfiltered set
DistanceFilterNoFallback(W, dist, req) ==
    IF has_gps(req)
    THEN LET within_10 == SelectSeq(W, LAMBDA i : dist[i] <= 100)
             within_20 == SelectSeq(W, LAMBDA i : dist[i] <= 200)
         IN  IF Len(within_10) >= MinNearby THEN within_10 ELSE within_20
    ELSE W

\* STEP 5
DistanceFilter(W, dist, req) ==
    IF has_gps(req)
    THEN LET within_10 == SelectSeq(W, LAMBDA i : dist[i] <= 100)
             within_20 == SelectSeq(W, LAMBDA i : dist[i] <= 200)
         IN  IF Len(within_10) >= MinNearby THEN within_10
             ELSE IF within_20 # <<>> THEN within_20
             ELSE W
    ELSE W

\* calculate_ai_score without the max(0, ...) of the distance term
calculate_ai_score_unclamped(r, req) ==
    LET rating_score   == 70 * r.rating
        dist           == IF "distance_km" \in DOMAIN r THEN r.distance_km
                          ELSE FallbackDistance
        distance_score == 3000 - 15 * dist
        cost           == r.cost_for_two
        diff2          == Abs(2 * cost - (req.budget_min + req.budget_max))
        budget_score   == IF req.budget_max < NoBudgetLimit
                          THEN (IF diff2 < 400 THEN 2000
                                ELSE IF diff2 < 1000 THEN 1400 ELSE 800)
                          ELSE 1600
    IN  rating_score + distance_score + budget_score + 1500

\* 0.35*rating/5 + 0.30*max(0, 1 - dist/20) + 0.20*budget_score + 0.15, times 10000;
\* r is the document, with its "distance_km" when STEP 5 has set it
calculate_ai_score(r, req) ==
    LET rating_score   == 70 * r.rating
        dist           == IF "distance_km" \in DOMAIN r THEN r.distance_km
                          ELSE FallbackDistance
        distance_score == IF 3000 - 15 * dist > 0 THEN 3000 - 15 * dist ELSE 0
        cost           == r.cost_for_two
        diff2          == Abs(2 * cost - (req.budget_min + req.budget_max))
        budget_score   == IF req.budget_max < NoBudgetLimit
                          THEN (IF diff2 < 400 THEN 2000
                                ELSE IF diff2 < 1000 THEN 1400 ELSE 800)
                          ELSE 1600
    IN  rating_score + distance_score + budget_score + 1500

\* InsertDesc putting a candidate ahead of those of equal score (ties reversed)
RECURSIVE InsertDescUnstable(_, _, _)
InsertDescUnstable(sorted, x, score) ==
    IF sorted = <<>> THEN <<x>>
    ELSE IF score[Head(sorted)] > score[x]
         THEN <<Head(sorted)>> \o InsertDescUnstable(Tail(sorted), x, score)
         ELSE <<x>> \o sorted

\* list.sort(key=ai_score, reverse=True): a stable sort, descending
RECURSIVE InsertDesc(_, _, _)
InsertDesc(sorted, x, score) ==
    IF sorted = <<>> THEN <<x>>
    ELSE IF score[Head(sorted)] >= score[x]
         THEN <<Head(sorted)>> \o InsertDesc(Tail(sorted), x, score)
         ELSE <<x>> \o sorted

RECURSIVE SortDesc(_, _)
SortDesc(s, score) ==
    IF s = <<>> THEN <<>>
    ELSE InsertDesc(SortDesc(SubSeq(s, 1, Len(s) - 1), score), s[Len(s)], score)

\* round(x, 2) of a score kept in 1/10000: to the nearest hundredth, ties to even
Round2(x) ==
    LET q == x \div 100
        r == x % 100
    IN  IF r > 50 \/ (r = 50 /\ q % 2 = 1) THEN q + 1 ELSE q

PlacesModes == {"no_key", "timeout", "zero_results", "ok_open", "ok_closed", "ok_no_hours"}

\* what get_google_places_data returns when the service behaves as `mode`
get_google_places_data(mode, name) ==
    IF mode = "no_key" THEN [is_open |-> TRUE, map_link |-> <<"search", name>>]
    ELSE IF mode \in {"ok_open", "ok_closed", "ok_no_hours"}
         THEN [is_open |-> (mode # "ok_closed"), map_link |-> <<"place", name>>]
         ELSE [is_open |-> TRUE, map_link |-> <<"search", name>>]

\* one entry of the response
ResponseEntry(r, dist, score, gps, google) ==
    [name         |-> r.name,
     distance_km  |-> IF gps /\ dist > 0 THEN <<dist, "km">> ELSE <<"Nearby">>,
     cuisine      |-> Join(<<",", " ">>, r.cuisines),
     spicy_level  |-> r.spicy_level,
     cost_for_two |-> r.cost_for_two,
     rating       |-> r.rating,
     is_open      |-> IF "is_open" \in DOMAIN google THEN google.is_open
                      ELSE r.open_now = "Yes",
     map_link     |-> IF "map_link" \in DOMAIN google THEN google.map_link ELSE <<>>,
     ai_score     |-> Round2(score)]

----------------------------------------------------------------------------
(* recommend_restaurants: the handler, stage by stage *)

Empty == [i \in {} |-> 0]

recommendVars == <<all_in_city, area_filtered, budget_filtered, taste_filtered,
                   final_list, distance_km, ai_score, top_results, lookup, result,
                   status>>

otherVars == <<grouped, famous_foods, df, cand>>

\* r as calculate_ai_score and the response read it
Document(i) ==
    IF i \in DOMAIN distance_km
    THEN [distance_km |-> distance_km[i]] @@ restaurants_col[i]
    ELSE restaurants_col[i]

\* STEP 1, and the 404 of an unknown city
CityStage ==
    /\ pc = "recommend"
    /\ all_in_city' = FindByCity(restaurants_col, request.city)
    /\ pc' = IF all_in_city' = <<>> THEN "not_found" ELSE "area"
    /\ status' = IF all_in_city' = <<>> THEN 404 ELSE 0
    /\ UNCHANGED <<restaurants_col, request, area_filtered, budget_filtered,
                   taste_filtered, final_list, distance_km, ai_score, top_results,
                   lookup, result, otherVars>>

AreaStage ==
    /\ pc = "area"
    /\ area_filtered' = AreaFilter(restaurants_col, all_in_city, request.area)
    /\ pc' = "budget"
    /\ UNCHANGED <<restaurants_col, request, all_in_city, budget_filtered,
                   taste_filtered, final_list, distance_km, ai_score, top_results,
                   lookup, result, status, otherVars>>

BudgetStage ==
    /\ pc = "budget"
    /\ budget_filtered' = BudgetFilter(restaurants_col, area_filtered,
                                       request.budget_min, request.budget_max)
    /\ pc' = "taste"
    /\ UNCHANGED <<restaurants_col, request, all_in_city, area_filtered,
                   taste_filtered, final_list, distance_km, ai_score, top_results,
                   lookup, result, status, otherVars>>

TasteStage ==
    /\ pc = "taste"
    /\ taste_filtered' = filter_by_taste(restaurants_col, budget_filtered,
                                         request.taste_preference)
    /\ pc' = "distance"
    /\ UNCHANGED <<restaurants_col, request, all_in_city, area_filtered,
                   budget_filtered, final_list, distance_km, ai_score, top_results,
                   lookup, result, status, otherVars>>

\* STEP 5, and the 404 of an empty final list
DistanceStage ==
    /\ pc = "distance"
    /\ distance_km' = Distances(restaurants_col, taste_filtered, request)
    /\ final_list' = DistanceFilter(taste_filtered, distance_km', request)
    /\ pc' = IF final_list' = <<>> THEN "not_found" ELSE "rank"
    /\ status' = IF final_list' = <<>> THEN 404 ELSE 0
    /\ UNCHANGED <<restaurants_col, request, all_in_city, area_filtered,
                   budget_filtered, taste_filtered, ai_score, top_results, lookup,
                   result, otherVars>>

\* STEP 6
RankStage ==
    /\ pc = "rank"
    /\ ai_score' = [i \in Range(final_list) |-> calculate_ai_score(Document(i), request)]
    /\ final_list' = SortDesc(final_list, ai_score')
    /\ top_results' = Take(final_list', TopN)
    /\ pc' = "respond"
    /\ UNCHANGED <<restaurants_col, request, all_in_city, area_filtered,
                   budget_filtered, taste_filtered, distance_km, lookup, result,
                   status, otherVars>>

\* STEP 7; the Places service answers as one of PlacesModes
RespondStage ==
    /\ pc = "respond"
    /\ \E mode \in PlacesModes :
        /\ lookup' = mode
        /\ result' = [k \in 1..Len(top_results) |->
                        LET i == top_results[k]
                        IN  ResponseEntry(Document(i),
                                IF i \in DOMAIN distance_km THEN distance_km[i] ELSE 0,
                                ai_score[i], has_gps(request),
                                get_google_places_data(mode, restaurants_col[i].name))]
    /\ status' = 200
    /\ pc' = "done"
    /\ UNCHANGED <<restaurants_col, request, all_in_city, area_filtered,
                   budget_filtered, taste_filtered, final_list, distance_km,
                   ai_score, top_results, otherVars>>

NextRecommend ==
    \/ CityStage
    \/ AreaStage
    \/ BudgetStage
    \/ TasteStage
    \/ DistanceStage
    \/ RankStage
    \/ RespondStage

\* no request in progress
InitWorking ==
    /\ all_in_city = <<>>
    /\ area_filtered = <<>>
    /\ budget_filtered = <<>>
    /\ taste_filtered = <<>>
    /\ final_list = <<>>
    /\ distance_km = Empty
    /\ ai_score = Empty
    /\ top_results = <<>>
    /\ lookup = ""
    /\ result = <<>>
    /\ status = 0

InitRecommend ==
    /\ restaurants_col \in Collections
    /\ request \in Requests
    /\ pc = "recommend"
    /\ InitWorking
    /\ grouped = <<>>
    /\ famous_foods = <<>>
    /\ df = <<>>
    /\ cand = NoDoc

SpecRecommend == InitRecommend /\ [][NextRecommend]_vars

----------------------------------------------------------------------------
(* Claims about recommend_restaurants *)

AfterArea   == pc \in {"budget", "taste", "distance", "rank", "respond", "done"}
AfterBudget == pc \in {"taste", "distance", "rank", "respond", "done"}

\* what the claims say of a document, read from the collection
Cost(i) == restaurants_col[i].cost_for_two

IsSublist(s, t) ==
    \* s keeps the order of t: positions in the collection ascend in both
    /\ Range(s) \subseteq Range(t)
    /\ \A a, b \in 1..Len(s) : a < b => s[a] < s[b]

\* C1: whenever city resolution gave at least one record, the working set after
\* the area stage is non-empty (and drawn from the city set), whatever request.area is.
C1_AreaNeverEmpty ==
    (AfterArea /\ all_in_city # <<>>) =>
        /\ area_filtered # <<>>
        /\ Range(area_filtered) \subseteq Range(all_in_city)

\* C1 witness: an area that matches no locality, exactly or as a substring, went
\* through the area stage and the stage fell back to the whole city set.
C1_Witness ==
    /\ pc = "budget"
    /\ request.area = tKondapur
    /\ all_in_city # <<>>
    /\ area_filtered = all_in_city

\* C2: with budget_max = 99999 the budget stage returns the working set of the
\* area stage unchanged: same records, same order, whatever budget_min is.
C2_SentinelNoOp ==
    (AfterBudget /\ request.budget_max = 99999) => budget_filtered = area_filtered

\* C2 witness: budget_max = 99999 with a budget_min above the cost of three
\* records and below the cost of three others: a real bound would have filtered.
C2_Witness ==
    /\ pc = "taste"
    /\ request.budget_max = 99999
    /\ Cardinality({i \in Range(area_filtered) : Cost(i) < request.budget_min}) >= 3
    /\ Cardinality({i \in Range(area_filtered) : Cost(i) >= request.budget_min}) >= 3
    /\ budget_filtered = area_filtered

\* C9: with budget_max < 99999 the budget stage returns the records of W within
\* [budget_min, budget_max] when there are at least 3; otherwise those costing at
\* most budget_max + 500 when there is one; otherwise W; always in W's order.
C9_BudgetStage ==
    (AfterBudget /\ request.budget_max < 99999) =>
        LET W       == area_filtered
            inRange == {i \in Range(W) : request.budget_min <= Cost(i)
                                         /\ Cost(i) <= request.budget_max}
            relaxed == {i \in Range(W) : Cost(i) <= request.budget_max + 500}
            want    == IF Cardinality(inRange) >= 3 THEN inRange
                       ELSE IF relaxed # {} THEN relaxed
                       ELSE Range(W)
        IN  /\ Range(budget_filtered) = want
            /\ Len(budget_filtered) = Cardinality(want)
            /\ IsSublist(budget_filtered, W)

\* C9 witness: one or two records were in range, and the relaxed bound kept a
\* record that costs more than budget_max.
C9_Witness ==
    /\ pc = "taste"
    /\ request.budget_max < 99999
    /\ LET inRange == {i \in Range(area_filtered) :
                          request.budget_min <= Cost(i) /\ Cost(i) <= request.budget_max}
       IN  /\ Cardinality(inRange) \in {1, 2}
           /\ inRange # Range(budget_filtered)
           /\ \E i \in Range(budget_filtered) : Cost(i) > request.budget_max

\* the setting of the spicy scenario: no area, unbounded budget, no GPS
SpicyScenario ==
    /\ pc = "done"
    /\ Lower(request.taste_preference) = tSpicy
    /\ request.area = <<>>
    /\ request.budget_max = 99999
    /\ request.latitude = 0
    /\ request.longitude = 0

EntryIsSpicy(e) ==
    \/ e.spicy_level = "High"
    \/ \E k \in 1..Len(spicy_kw) : Contains(spicy_kw[k], Lower(e.cuisine))

DocIsSpicy(r) ==
    \/ r.spicy_level = "High"
    \/ \E k \in 1..Len(spicy_kw) : Contains(spicy_kw[k], Lower(Join(<<" ">>, r.cuisines)))

DocIsMild(r) ==
    \/ r.spicy_level \in {"Low", "Medium"}
    \/ \E k \in 1..Len(mild_kw) : Contains(mild_kw[k], Lower(Join(<<" ">>, r.cuisines)))

\* C6 as stated: in the spicy scenario every response entry has spicy_level
\* "High" or a cuisines text with a spicy keyword, whatever the city holds.
C6_Original ==
    SpicyScenario => \A k \in 1..Len(result) : EntryIsSpicy(result[k])

\* C6 amended: in the spicy scenario, when some record of the resolved city set
\* has spicy_level "High" or a spicy keyword in its cuisines, every response
\* entry has one or the other (otherwise the stage falls back to the whole set).
C6_Amended ==
    (SpicyScenario /\ \E i \in Range(all_in_city) : DocIsSpicy(restaurants_col[i])) =>
        \A k \in 1..Len(result) : EntryIsSpicy(result[k])

\* C6 witness: the city set has no "High" record, a record with a spicy keyword
\* and a record with neither; the response holds the keyword match only.
C6_Witness ==
    /\ SpicyScenario
    /\ \A i \in Range(all_in_city) : restaurants_col[i].spicy_level # "High"
    /\ \E i \in Range(all_in_city) : DocIsSpicy(restaurants_col[i])
    /\ \E i \in Range(all_in_city) : ~DocIsSpicy(restaurants_col[i])
    /\ Len(result) < Len(all_in_city)

\* C7 as stated: when the Places lookup is unavailable (no key, a timeout or
\* error, a non-OK status), is_open of each entry is the record's open_now = "Yes".
C7_IsOpenFallsBack ==
    (pc = "done" /\ lookup \in {"no_key", "timeout", "zero_results"}) =>
        \A k \in 1..Len(result) :
            result[k].is_open = (restaurants_col[top_results[k]].open_now = "Yes")

\* C10: once the city resolves to at least one record the request does not end
\* in NotFound: every stage's working set is non-empty, and the response has
\* between 1 and 20 entries, each built from a record of the resolved city set.
C10_NeverNotFound ==
    /\ pc = "not_found" => all_in_city = <<>>
    /\ (AfterArea /\ all_in_city # <<>>) => area_filtered # <<>>
    /\ AfterBudget => budget_filtered # <<>>
    /\ pc \in {"distance", "rank", "respond", "done"} => taste_filtered # <<>>
    /\ pc \in {"rank", "respond", "done"} => final_list # <<>>
    /\ pc = "done" =>
        /\ status = 200
        /\ Len(result) >= 1
        /\ Len(result) <= 20
        /\ Len(result) = Len(top_results)
        /\ \A k \in 1..Len(result) :
            /\ top_results[k] \in Range(all_in_city)
            /\ result[k].name = restaurants_col[top_results[k]].name
            /\ result[k].cost_for_two = restaurants_col[top_results[k]].cost_for_two

\* C10 witness: a request with an area no locality matches, a bounded budget
\* and GPS coordinates, whose taste matches no record by level or keyword, was answered with 20
\* entries out of more than 20 city records.
C10_Witness ==
    /\ pc = "done"
    /\ request.area = tKondapur
    /\ request.budget_max < 99999
    /\ request.latitude # 0
    /\ request.longitude # 0
    /\ Len(all_in_city) > 20
    /\ Lower(request.taste_preference) # tSpicy
    /\ \A i \in Range(budget_filtered) : ~DocIsMild(restaurants_col[i])
    /\ taste_filtered = budget_filtered
    /\ Len(result) = 20

PositionIn(s, x) == CHOOSE k \in 1..Len(s) : s[k] = x

\* C4: the ranking step orders the working set by non-increasing ai_score, keeps
\* candidates of equal ai_score in the order they had before sorting, and
\* returns the first 20 of that order (all when fewer); the response follows it.
C4_StableRanking ==
    [][ /\ pc = "rank" =>
            /\ Range(final_list') = Range(final_list)
            /\ Len(final_list') = Len(final_list)
            /\ \A a, b \in 1..Len(final_list') : a < b =>
                /\ ai_score'[final_list'[a]] >= ai_score'[final_list'[b]]
                /\ ai_score'[final_list'[a]] = ai_score'[final_list'[b]] =>
                     PositionIn(final_list, final_list'[a])
                        < PositionIn(final_list, final_list'[b])
            /\ Len(top_results') = (IF Len(final_list) < 20 THEN Len(final_list) ELSE 20)
            /\ \A k \in 1..Len(top_results') : top_results'[k] = final_list'[k]
        /\ pc = "respond" =>
            /\ Len(result') = Len(top_results)
            /\ \A k \in 1..Len(result') :
                result'[k].name = restaurants_col[top_results[k]].name
      ]_vars

\* C4 witness: more than 20 candidates were ranked, some with equal and some
\* with different ai_score, and the sort moved a later candidate ahead of an
\* earlier one.
C4_Witness ==
    /\ pc = "respond"
    /\ Len(final_list) > 20
    /\ Len(top_results) = 20
    /\ \E a, b \in 1..Len(final_list) :
        a < b /\ ai_score[final_list[a]] = ai_score[final_list[b]]
    /\ \E a, b \in 1..Len(final_list) :
        a < b /\ ai_score[final_list[a]] > ai_score[final_list[b]]
                /\ final_list[a] > final_list[b]

----------------------------------------------------------------------------
(* get_famous_foods *)

tBiryaniLc == <<"b","i","r","y","a","n","i">>
tHydBiryani ==
    <<"H","y","d","e","r","a","b","a","d","i"," ","B","i","r","y","a","n","i">>

MUST_SHOW == <<tBiryani, tSouthIndian, tHaleem, tAndhra, tCafe>>

Alphabet == <<"a","b","c","d","e","f","g","h","i","j","k","l","m","n","o","p",
              "q","r","s","t","u","v","w","x","y","z">>

\* a cuisine no must-show label matches
FillerCuisine(k) == <<"z", "z", Alphabet[k]>>

CuisineNames ==
    {tBiryani, tBiryaniLc, tHydBiryani, tSouthIndian, tHaleem, tAndhra, tCafe,
     tChinese, tNorthIndian}

\* the groups of the aggregation after its $sort: distinct cuisines, by
\* descending popularity_score (in hundredths)
Ranking(names) ==
    [i \in 1..Len(names) |->
        [_id |-> names[i], popularity_score |-> 450 * (Len(names) - i + 1)]]

Fillers(n) == [k \in 1..n |-> FillerCuisine(k)]

DistinctSeqs(S, n) ==
    {q \in SeqsUpTo(S, n) : \A a, b \in 1..Len(q) : a # b => q[a] # q[b]}

\* a city's cuisines: none, CuisineLimit - 1 or CuisineLimit more popular
\* cuisines, then up to MaxCuisines cuisines of CuisineNames
CityCuisines ==
    {Ranking(Fillers(n) \o q) :
        n \in {0, CuisineLimit - 1, CuisineLimit},
        q \in DistinctSeqs(CuisineNames, MaxCuisines)}

\* the $limit of the pipeline
TopCuisines(groups) == Take(groups, CuisineLimit)

\* one iteration of the must-show loop; st = [final, seen]
MustShowStep(st, must, all_results) ==
    LET exact   == {i \in 1..Len(all_results) : all_results[i]._id = must}
        partial == {i \in 1..Len(all_results) :
                       /\ Contains(Lower(must), Lower(all_results[i]._id))
                       /\ all_results[i]._id \notin st.seen}
        first   == CHOOSE i \in partial : \A j \in partial : i <= j
    IN  IF exact # {} /\ must \notin st.seen
        THEN [final |-> Append(st.final, all_results[CHOOSE i \in exact : TRUE]),
              seen  |-> st.seen \cup {must}]
        ELSE IF partial # {}
        THEN [final |-> Append(st.final, all_results[first]),
              seen  |-> st.seen \cup {all_results[first]._id}]
        ELSE st

RECURSIVE MustShowLoop(_, _, _)
MustShowLoop(st, labels, all_results) ==
    IF labels = <<>> THEN st
    ELSE MustShowLoop(MustShowStep(st, Head(labels), all_results), Tail(labels),
                      all_results)

\* the fill loop, over the rest of all_results
RECURSIVE FillLoop(_, _)
FillLoop(st, rest) ==
    IF rest = <<>> THEN st
    ELSE IF Head(rest)._id \notin st.seen /\ Len(st.final) < MaxFamous
         THEN FillLoop([final |-> Append(st.final, Head(rest)),
                        seen  |-> st.seen \cup {Head(rest)._id}], Tail(rest))
         ELSE FillLoop(st, Tail(rest))

get_famous_foods(groups) ==
    LET all_results == TopCuisines(groups)
        shown  == MustShowLoop([final |-> <<>>, seen |-> {}], MUST_SHOW, all_results)
        filled == FillLoop(shown, all_results)
        final  == Take(filled.final, MaxFamous)
    IN  [k \in 1..Len(final) |->
            [name |-> final[k]._id, cuisine_type |-> final[k]._id,
             popularity_score |-> final[k].popularity_score]]

GetFamousFoods ==
    /\ pc = "foods"
    /\ famous_foods' = get_famous_foods(grouped)
    /\ pc' = "foods_done"
    /\ UNCHANGED <<restaurants_col, request, recommendVars, grouped, df, cand>>

NextFoods == GetFamousFoods

InitFoods ==
    /\ restaurants_col = <<>>
    /\ request = NoRequest
    /\ pc = "foods"
    /\ InitWorking
    /\ grouped \in CityCuisines
    /\ famous_foods = <<>>
    /\ df = <<>>
    /\ cand = NoDoc

SpecFoods == InitFoods /\ [][NextFoods]_vars

LabelMatches(label, cuisine) == Contains(Lower(label), Lower(cuisine))

\* the labels of the priority list with a match among the city's cuisines
MatchedLabels ==
    {l \in 1..Len(MUST_SHOW) :
        \E g \in 1..Len(grouped) : LabelMatches(MUST_SHOW[l], grouped[g]._id)}

\* C3 as stated: the output holds an entry for every priority label that has a
\* match, exact or substring, among the city's cuisines; these entries are in
\* priority order and come before every popularity-filled entry.
C3_MustShowAlwaysPresent ==
    pc = "foods_done" =>
        \E pos \in [MatchedLabels -> 1..Cardinality(MatchedLabels)] :
            /\ \A l \in MatchedLabels :
                /\ pos[l] <= Len(famous_foods)
                /\ LabelMatches(MUST_SHOW[l], famous_foods[pos[l]].name)
            /\ \A l, m \in MatchedLabels : l < m => pos[l] < pos[m]

----------------------------------------------------------------------------
(* import_data.py *)

\* a cell of the data frame: missing (pandas NaN), a number or a text
NaN     == [kind |-> "nan"]
Num(n)  == [kind |-> "num", num |-> n]
Text(s) == [kind |-> "text", text |-> s]

tNotSpecified == <<"N","o","t"," ","s","p","e","c","i","f","i","e","d">>
tUnknown      == <<"U","n","k","n","o","w","n">>

\* pd.isna(cell)
isna(cell) == cell.kind = "nan"

\* Series.fillna(value)
fillna(cell, value) == IF isna(cell) THEN value ELSE cell

\* pd.to_numeric(cell, errors='coerce'): a text that is no number becomes NaN
to_numeric(cell) == IF cell.kind = "num" THEN cell ELSE NaN

clean_cuisines(cuisine_str) ==
    IF isna(cuisine_str) THEN <<>>
    ELSE LET parts == Split(cuisine_str.text, ",")
         IN  [k \in 1..Len(parts) |-> Strip(parts[k])]

\* the document import_dataset builds from one row
ImportRow(row) ==
    [name         |-> fillna(row.Restaurant_Name, Text(tUnknown)).text,
     city         |-> fillna(row.City, Text(tHyderabad)).text,
     locality     |-> fillna(row.Area_Locality, Text(tUnknown)).text,
     cuisines     |-> clean_cuisines(fillna(row.Cuisine, Text(tNotSpecified))),
     cost_for_two |-> fillna(to_numeric(fillna(row.Average_Cost_for_Two_INR, Num(500))),
                             Num(500)).num,
     rating       |-> fillna(to_numeric(fillna(row.Rating, Num(0))), Num(0)).num,
     latitude     |-> fillna(to_numeric(fillna(row.Latitude, Num(DefaultLatitude))),
                             Num(DefaultLatitude)).num,
     longitude    |-> fillna(to_numeric(fillna(row.Longitude, Num(DefaultLongitude))),
                             Num(DefaultLongitude)).num,
     spicy_level  |-> fillna(row.Taste_Profile_Spicy_Level, Text("Medium")).text,
     open_now     |-> fillna(row.Open_Now, Text("Yes")).text]

CuisineCells ==
    { NaN,
      Text(tBiryani),
      Text(<<"B","i","r","y","a","n","i",","," ","C","a","f","e">>),
      Text(<<"B","i","r","y","a","n","i",",",",","C","a","f","e">>),
      Text(<<",","B","i","r","y","a","n","i">>),
      Text(<<"B","i","r","y","a","n","i",",">>),
      Text(<<" ","C","a","f","e"," ">>),
      Text(<<" ">>),
      Text(<<>>) }

Rows ==
    { [Restaurant_Name |-> NaN, City |-> c, Area_Locality |-> Text(tBanjaraHills),
       Cuisine |-> q, Average_Cost_for_Two_INR |-> n, Rating |-> Num(45),
       Latitude |-> NaN, Longitude |-> NaN, Taste_Profile_Spicy_Level |-> NaN,
       Open_Now |-> Text("No")] :
        c \in {NaN, Text(tPune)}, q \in CuisineCells,
        n \in {NaN, Num(250), Text(tUnknown)} }

\* delete_many({}) then insert_many(restaurants)
ImportDataset ==
    /\ pc = "import"
    /\ restaurants_col' = [k \in 1..Len(df) |-> ImportRow(df[k])]
    /\ pc' = "imported"
    /\ UNCHANGED <<request, recommendVars, grouped, famous_foods, df, cand>>

NextImport == ImportDataset

InitImport ==
    /\ restaurants_col \in {<<>>} \cup [1..1 -> Catalog]
    /\ request = NoRequest
    /\ pc = "import"
    /\ InitWorking
    /\ grouped = <<>>
    /\ famous_foods = <<>>
    /\ df \in SeqsUpTo(Rows, MaxRows)
    /\ cand = NoDoc

SpecImport == InitImport /\ [][NextImport]_vars

\* C8 as stated: after import_dataset every element of every stored record's
\* cuisines is a trimmed, non-empty string, whatever the Cuisine cell held.
C8_CuisinesTrimmedNonEmpty ==
    pc = "imported" =>
        \A k \in 1..Len(restaurants_col) :
            \A e \in 1..Len(restaurants_col[k].cuisines) :
                /\ restaurants_col[k].cuisines[e] = Strip(restaurants_col[k].cuisines[e])
                /\ restaurants_col[k].cuisines[e] # <<>>

----------------------------------------------------------------------------
(* calculate_ai_score on its own *)

\* candidates with rating in [0, 5] and, when set, distance_km >= 0
Candidates ==
    { [rating |-> r, cost_for_two |-> c] : r \in 0..50, c \in {0, 250, 500, 5000} }
    \cup
    { [rating |-> r, cost_for_two |-> c, distance_km |-> 5 * d] :
        r \in 0..50, c \in {0, 250, 500, 5000}, d \in 0..(2 * MaxDistKm) }

ScoreRequests ==
    { [city |-> tHyderabad, area |-> <<>>, latitude |-> 0, longitude |-> 0,
       taste_preference |-> tSpicy, budget_min |-> b[1], budget_max |-> b[2]] :
        b \in Budgets \cup { <<0, 1000>>, <<0, 99998>> } }

\* r["ai_score"] = calculate_ai_score(r, request)
ScoreCandidate ==
    /\ pc = "score"
    /\ cand' = [ai_score |-> calculate_ai_score(cand, request)] @@ cand
    /\ pc' = "scored"
    /\ UNCHANGED <<restaurants_col, request, recommendVars, grouped, famous_foods, df>>

NextScore == ScoreCandidate

InitScore ==
    /\ restaurants_col = <<>>
    /\ request \in ScoreRequests
    /\ pc = "score"
    /\ InitWorking
    /\ grouped = <<>>
    /\ famous_foods = <<>>
    /\ df = <<>>
    /\ cand \in Candidates

SpecScore == InitScore /\ [][NextScore]_vars

\* C5: for a candidate with rating in [0, 5] and distance_km >= 0, and any
\* request, calculate_ai_score returns a value in [0.15, 1.0].
C5_ScoreInRange ==
    pc = "scored" => (cand.ai_score >= 1500 /\ cand.ai_score <= 10000)

\* C5 witness: a candidate more than 20 km away, where the distance term is
\* clamped at 0, with rating 0 and a cost far from the budget midpoint.
C5_Witness ==
    /\ pc = "scored"
    /\ "distance_km" \in DOMAIN cand
    /\ cand.distance_km > 200
    /\ cand.rating = 0
    /\ request.budget_max < 99999
    /\ cand.ai_score = 2300

----------------------------------------------------------------------------
(* The program: one request, or one run of the import script *)

Init == InitRecommend \/ InitFoods \/ InitImport \/ InitScore

Next == NextRecommend \/ NextFoods \/ NextImport \/ NextScore

Spec == Init /\ [][Next]_vars

====
